---- MODULE Spec2Model ----
(***************************************************************************)
(* Cart manager and order workflow of MotorcycleWorld                      *)
(* (services/order_service.py over orders/models.py, products/models.py).  *)
(*                                                                         *)
(* Money is counted in integers.  A Decimal with two places is a number of *)
(* cents; an intermediate Decimal with four places (subtotal * 0.08) is a  *)
(* number of 1/100 cents ("e4" units) until a DecimalField stores it.      *)
(***************************************************************************)
EXTENDS Integers, Sequences, FiniteSets, TLC

(***************************************************************************)
(* Bounds of the model.                                                    *)
(***************************************************************************)
MaxQty == 2             \* largest quantity of a seeded line or a request
VariantInitStock == 2   \* ProductVariant.stock of v1 and v2 in the initial state
ProductInitStock == 1   \* Product.stock_quantity of p1 in the initial state
MaxPriceEdits == 1      \* price edits an administrator makes at most
MaxItemId == 5          \* cart_items primary keys handed out at most
MaxOrders == 2          \* orders created at most

Users == {"u1", "u2"}
NoUser == "nobody"
Products == {"p1"}
ProductIds == Products \cup {"p9"}      \* p9: an id no product has
Variants == {"v1", "v2"}
NoVariant == "none"                      \* variant_id None / NULL foreign key
VariantIds == {NoVariant, "v1", "v2"}
PriceChoices == {3333, 10000}   \* cents an administrator may enter
AdjChoices == {0, 50}                    \* cents of price_adjustment
NameChoices == {"Helmet", "Helmet Pro"}  \* Product.name values
SkuChoices == {"HEL-1", "HEL-2"}         \* Product.sku values
VariantNameChoices == {"Red", "Blue", "Green"}   \* ProductVariant.name values
NoName == "NULL"                         \* a NULL variant_name
NoTime == 0                              \* a NULL DateTimeField

(***************************************************************************)
(* The model classes: column names, and the names a Python attribute read  *)
(* resolves on an instance (columns and properties).                       *)
(***************************************************************************)
ProductFields ==
    {"id", "name", "slug", "description", "short_description", "category",
     "brand", "model", "sku", "price", "compare_price", "cost_price",
     "stock_quantity", "min_stock_level", "weight", "dimensions", "status",
     "is_featured", "requires_shipping", "is_digital", "meta_title",
     "meta_description", "created_at", "updated_at", "created_by",
     "updated_by"}

ProductAttrs ==
    ProductFields \cup {"is_on_sale", "discount_percentage", "is_in_stock",
                        "is_low_stock", "average_rating", "review_count"}

VariantFields ==
    {"id", "product", "name", "sku", "price_adjustment", "stock",
     "attributes", "is_active", "created_at"}

VARIABLES
    products,     \* products table: id -> [price, stock_quantity, status, name, sku]
    variants,     \* product_variants: id -> [product, price_adjustment, stock,
                  \*                          is_active, name]
    carts,        \* carts table: the users that own a Cart row
    cartItems,    \* cart_items: set of [id, cart, product, variant, quantity]
    nextItemId,   \* next primary key of cart_items
    orders,       \* orders table, in creation order
    orderItems,   \* order_items: set of rows
    history,      \* order_status_history, in insertion order
    priceEdits,   \* price edits made so far
    now,          \* the clock timezone.now() reads
    reviews,      \* reviews: set of [product, user, rating, comment, is_approved]
    summaries,    \* review_summaries: set of [product, summary, total_reviews,
                  \*                            average_rating]
    categories,   \* categories table: id -> [name, slug, parent]
    nextCategoryId,   \* next primary key of categories
    calls,        \* the calls in flight, each in its own transaction
    last          \* the call that produced this state and what it returned

dbvars == <<products, variants, carts, cartItems, nextItemId, orders,
            orderItems, history>>
\* What no handler of the order service writes.
others == <<priceEdits, now, reviews, summaries, categories, nextCategoryId,
            calls>>
vars == <<products, variants, carts, cartItems, nextItemId, orders,
          orderItems, history, priceEdits, now, reviews, summaries,
          categories, nextCategoryId, calls, last>>

\* The database as one value, so that a handler is a function of it.
DB ==
    [products |-> products, variants |-> variants, carts |-> carts,
     cartItems |-> cartItems, nextItemId |-> nextItemId, orders |-> orders,
     orderItems |-> orderItems, history |-> history]

(***************************************************************************)
(* Decimal arithmetic.                                                     *)
(***************************************************************************)
FreeShippingThreshold == 10000   \* Decimal('100.00') in cents
FlatRateShipping == 1000         \* Decimal('10.00') in cents
TaxRateHundredths == 8           \* Decimal('0.08') in hundredths

\* A two-place Decimal (cents) as a four-place one.
E4(cents) == cents * 100

\* What a DecimalField(decimal_places=2) stores of a four-place value: the
\* value quantized to cents, ties to even.
Quantize2(x) ==
    LET q == x \div 100
        r == x % 100
    IN  IF r > 50 \/ (r = 50 /\ q % 2 = 1) THEN q + 1 ELSE q

(***************************************************************************)
(* Rows of a cart in the order the queries return them (primary key).      *)
(***************************************************************************)
ItemsOf(db, u) == {l \in db.cartItems : l.cart = u}

RECURSIVE SeqById(_)
SeqById(S) ==
    IF S = {} THEN <<>>
    ELSE LET l == CHOOSE x \in S : \A y \in S : x.id <= y.id
         IN  <<l>> \o SeqById(S \ {l})

\* ProductVariant.final_price
final_price(db, v) ==
    db.products[db.variants[v].product].price + db.variants[v].price_adjustment

\* unit_price with a fault: the variant's price_adjustment is left out.
unit_price_without_adjustment(db, l) == db.products[l.product].price

\* CartItem.unit_price
unit_price(db, l) ==
    IF l.variant # NoVariant THEN final_price(db, l.variant)
    ELSE db.products[l.product].price

\* CartItem.subtotal
subtotal(db, l) == unit_price(db, l) * l.quantity

\* Cart.total_price: total = 0; for item in items: total += item.subtotal
RECURSIVE SumSubtotals(_, _)
SumSubtotals(db, ls) ==
    IF ls = <<>> THEN 0
    ELSE subtotal(db, Head(ls)) + SumSubtotals(db, Tail(ls))

total_price(db, u) == SumSubtotals(db, SeqById(ItemsOf(db, u)))

\* calculate_shipping_cost with a fault: free shipping only above the
\* threshold.
calculate_shipping_cost_above(sub) ==
    IF sub > FreeShippingThreshold THEN 0 ELSE FlatRateShipping

\* OrderService._calculate_shipping_cost, cents to cents
calculate_shipping_cost(sub) ==
    IF sub >= FreeShippingThreshold THEN 0 ELSE FlatRateShipping

\* calculate_tax_amount with a fault: the rate is applied to the subtotal
\* with the shipping cost.
calculate_tax_amount_with_shipping(sub) ==
    (sub + calculate_shipping_cost(sub)) * TaxRateHundredths

\* OrderService._calculate_tax_amount: subtotal * Decimal('0.08'), cents to e4
calculate_tax_amount(sub) == sub * TaxRateHundredths

\* calculate_total_amount with a fault: the tax is left out of the total.
calculate_total_amount_without_tax(sub, ship, tax, disc) ==
    E4(sub) + E4(ship) - E4(disc)

\* total_amount = subtotal + shipping_cost + tax_amount - discount_amount, e4
calculate_total_amount(sub, ship, tax, disc) ==
    E4(sub) + E4(ship) + tax - E4(disc)

(***************************************************************************)
(* A handler's database work.  st.db is the database as the handler sees   *)
(* it, st.writes the INSERT/UPDATE/DELETE statements it has executed and   *)
(* st.raised whether an exception is propagating, st.exc which one.        *)
(* fault = k > 0 makes the k-th statement fail with a database error;      *)
(* fault = 0 is a database that executes everything.                       *)
(***************************************************************************)
Start(db) == [db |-> db, writes |-> 0, raised |-> FALSE, exc |-> ""]

Raise(st, e) == [st EXCEPT !.raised = TRUE, !.exc = e]

Write(st, fault, newdb) ==
    IF st.raised THEN st
    ELSE IF st.writes + 1 = fault THEN Raise(st, "DatabaseError")
    ELSE [st EXCEPT !.db = newdb, !.writes = st.writes + 1]

\* except Exception as e: ... 'message': f'Error ...: {str(e)}'
ErrorMessage(prefix, st) == prefix \o ": " \o st.exc

\* Atomic with a fault: the statements executed before the exception stay.
AtomicNoRollback(pre, st) == st.db

\* with transaction.atomic(): an exception leaving the block rolls back all
\* of the block's statements; a return from inside it commits them.
Atomic(pre, st) == IF st.raised THEN pre ELSE st.db

\* The dict a handler returns, with the database it leaves behind.
Result(db, st, ok, msg) ==
    [db |-> db, ok |-> ok, msg |-> msg, writes |-> st.writes]

\* An exception leaves the atomic block and reaches "except Exception".
Failed(pre, st, prefix) ==
    Result(Atomic(pre, st), st, FALSE, ErrorMessage(prefix, st))

\* Cart.objects.get_or_create(user=user)
get_or_create_cart(st, u) ==
    IF u \in st.db.carts THEN st
    ELSE Write(st, 0, [st.db EXCEPT !.carts = @ \cup {u}])

\* variant_stock with a fault: the product's pool is read for a variant.
variant_stock_of_product(db, v) ==
    db.products[db.variants[v].product].stock_quantity

\* variant.stock, a column of ProductVariant
variant_stock(db, v) == db.variants[v].stock

\* product.stock: the attribute named "stock" of a Product instance.  No
\* column or property of Product has this name, so the read raises
\* AttributeError.
product_stock(db, p) ==
    IF "stock" \in ProductAttrs
    THEN [raised |-> FALSE, value |-> db.products[p].stock]
    ELSE [raised |-> TRUE, value |-> 0]

\* available_stock = item.variant.stock if item.variant else item.product.stock
available_stock(db, p, v) ==
    IF v # NoVariant THEN [raised |-> FALSE, value |-> variant_stock(db, v)]
    ELSE product_stock(db, p)

\* PositiveIntegerField: the column's CHECK (value >= 0)
PositiveIntegerOk(n) == n >= 0

(***************************************************************************)
(* OrderService.create_order                                               *)
(***************************************************************************)
\* CartIsEmpty with a fault: the check for an empty cart is missing.
CartIsEmptyUnchecked(db, u) == FALSE

\* if not cart.items.exists()
CartIsEmpty(db, u) == ItemsOf(db, u) = {}

\* for cart_item in cart.items.all(): ... if available_stock < quantity: return
RECURSIVE ValidateStock(_, _)
ValidateStock(db, ls) ==
    IF ls = <<>> THEN "ok"
    ELSE LET l == Head(ls)
             a == available_stock(db, l.product, l.variant)
         IN  IF a.raised THEN "AttributeError"
             ELSE IF a.value < l.quantity THEN "insufficient"
             ELSE ValidateStock(db, Tail(ls))

\* OrderItem.save: the product's name and sku and, with a variant, the
\* variant's name are copied into the row, total_price is computed.
OrderItemSave(db, oi) ==
    [oi EXCEPT !.product_name = db.products[oi.product].name,
               !.product_sku = db.products[oi.product].sku,
               !.variant_name = IF oi.variant # NoVariant
                                THEN db.variants[oi.variant].name
                                ELSE @,
               !.total_price = oi.unit_price * oi.quantity]

\* OrderItem.objects.create(...), which saves the new instance
NewOrderItem(db, oid, l) ==
    OrderItemSave(db,
        [order |-> oid, product |-> l.product, variant |-> l.variant,
         quantity |-> l.quantity, unit_price |-> unit_price(db, l),
         total_price |-> 0, product_name |-> "", product_sku |-> "",
         variant_name |-> NoName])

\* "Update stock": variant.stock -= quantity; variant.save()
\*            or   product.stock -= quantity; product.save()
UpdateStock(st, fault, l) ==
    IF st.raised THEN st
    ELSE IF l.variant # NoVariant
    THEN LET n == variant_stock(st.db, l.variant) - l.quantity
         IN  IF ~PositiveIntegerOk(n) THEN Raise(st, "IntegrityError")
             ELSE Write(st, fault, [st.db EXCEPT !.variants[l.variant].stock = n])
    ELSE LET a == product_stock(st.db, l.product)
         IN  IF a.raised THEN Raise(st, "AttributeError")
             ELSE Write(st, fault,
                        [st.db EXCEPT !.products[l.product].stock =
                                          a.value - l.quantity])

\* "Create order items and update stock", one cart line after the other
RECURSIVE CreateItems(_, _, _, _)
CreateItems(st, fault, oid, ls) ==
    IF ls = <<>> \/ st.raised THEN st
    ELSE LET l == Head(ls)
             s1 == Write(st, fault,
                         [st.db EXCEPT !.orderItems =
                                          @ \cup {NewOrderItem(st.db, oid, l)}])
             s2 == UpdateStock(s1, fault, l)
         IN  CreateItems(s2, fault, oid, Tail(ls))

\* Order.objects.create(...): the row as the DecimalFields store it
NewOrder(oid, u, sub) ==
    LET ship == calculate_shipping_cost(sub)
        tax == calculate_tax_amount(sub)
        disc == 0
        total == calculate_total_amount(sub, ship, tax, disc)
    IN  [id |-> oid, user |-> u, status |-> "pending",
         shipped_at |-> NoTime, delivered_at |-> NoTime,
         subtotal |-> Quantize2(E4(sub)), shipping_cost |-> Quantize2(E4(ship)),
         tax_amount |-> Quantize2(tax), discount_amount |-> Quantize2(E4(disc)),
         total_amount |-> Quantize2(total)]

\* The body of the atomic block, from "Calculate totals" on
PlaceOrder(db, u, fault) ==
    LET ls == SeqById(ItemsOf(db, u))
        oid == Len(db.orders) + 1
        s1 == Write(Start(db), fault,
                    [db EXCEPT !.orders =
                                   Append(@, NewOrder(oid, u, total_price(db, u)))])
        s2 == CreateItems(s1, fault, oid, ls)
        s3 == Write(s2, fault,
                    [s2.db EXCEPT !.history =
                                      Append(@, [order |-> oid, status |-> "pending",
                                                 notes |-> "Order created",
                                                 created_by |-> u])])
    IN  Write(s3, fault, [s3.db EXCEPT !.cartItems = @ \ ItemsOf(s3.db, u)])

create_order(db, u, fault) ==
    IF u \notin db.carts
    THEN Result(db, Start(db), FALSE, "Cart not found")
    ELSE IF CartIsEmpty(db, u)
    THEN Result(db, Start(db), FALSE, "Cart is empty")
    ELSE LET v == ValidateStock(db, SeqById(ItemsOf(db, u)))
         IN  IF v = "AttributeError"
             THEN Failed(db, Raise(Start(db), v), "Error creating order")
             ELSE IF v = "insufficient"
             THEN Result(db, Start(db), FALSE, "Insufficient stock")
             ELSE LET st == PlaceOrder(db, u, fault)
                  IN  IF st.raised
                      THEN Failed(db, st, "Error creating order")
                      ELSE Result(Atomic(db, st), st, TRUE,
                                  "Order created successfully")

(***************************************************************************)
(* OrderService.add_to_cart                                                *)
(***************************************************************************)
\* Model.objects.get(**kw): a keyword that names no column raises FieldError
LookupRaises(fields, kw) == ~(kw \subseteq fields)

\* CartItem.objects.filter(cart=cart, product=product, variant=variant)
ExistingItems(db, u, p, v) ==
    {l \in db.cartItems : l.cart = u /\ l.product = p /\ l.variant = v}

\* From "Check stock" on: product and variant have been found
AddLine(db, st, u, p, v, q) ==
    LET a == available_stock(st.db, p, v)
        ex == ExistingItems(st.db, u, p, v)
    IN  IF a.raised
        THEN Failed(db, Raise(st, "AttributeError"), "Error adding product to cart")
        ELSE IF a.value < q
        THEN Result(st.db, st, FALSE, "Only N items available in stock")
        ELSE IF ex # {}
        THEN LET e == Head(SeqById(ex))
                 n == e.quantity + q
             IN  IF a.value < n
                 THEN Result(st.db, st, FALSE, "Cannot add more items")
                 ELSE IF ~PositiveIntegerOk(n)
                 THEN Failed(db, Raise(st, "IntegrityError"),
                             "Error adding product to cart")
                 ELSE LET s1 == Write(st, 0,
                                  [st.db EXCEPT !.cartItems =
                                      (@ \ {e}) \cup {[e EXCEPT !.quantity = n]}])
                      IN  Result(s1.db, s1, TRUE, "Product updated to cart successfully")
        ELSE IF ~PositiveIntegerOk(q)
        THEN Failed(db, Raise(st, "IntegrityError"), "Error adding product to cart")
        ELSE LET s1 == Write(st, 0,
                         [st.db EXCEPT
                              !.cartItems = @ \cup {[id |-> st.db.nextItemId,
                                                     cart |-> u, product |-> p,
                                                     variant |-> v, quantity |-> q]},
                              !.nextItemId = @ + 1])
             IN  Result(s1.db, s1, TRUE, "Product added to cart successfully")

\* add_to_cart with a fault: the line is created at once, without the
\* lookups of the product, the variant and an existing line.
add_to_cart_without_lookup(db, u, pid, vid, q) ==
    LET st == get_or_create_cart(Start(db), u)
        s1 == Write(st, 0,
                  [st.db EXCEPT
                       !.cartItems = @ \cup {[id |-> st.db.nextItemId,
                                              cart |-> u, product |-> pid,
                                              variant |-> vid, quantity |-> q]},
                       !.nextItemId = @ + 1])
    IN  Result(s1.db, s1, TRUE, "Product added to cart successfully")

add_to_cart(db, u, pid, vid, q) ==
    LET st == get_or_create_cart(Start(db), u)
    IN  IF LookupRaises(ProductFields, {"id", "is_active"})
        THEN Failed(db, Raise(st, "FieldError"), "Error adding product to cart")
        ELSE IF pid \notin DOMAIN st.db.products \/ ~st.db.products[pid].is_active
        THEN Result(st.db, st, FALSE, "Product not found or inactive")
        ELSE IF vid = NoVariant
        THEN AddLine(db, st, u, pid, NoVariant, q)
        ELSE IF LookupRaises(VariantFields, {"id", "product", "is_active"})
        THEN Failed(db, Raise(st, "FieldError"), "Error adding product to cart")
        ELSE IF \/ vid \notin DOMAIN st.db.variants
                \/ st.db.variants[vid].product # pid
                \/ ~st.db.variants[vid].is_active
        THEN Result(st.db, st, FALSE, "Product variant not found or inactive")
        ELSE AddLine(db, st, u, pid, vid, q)

(***************************************************************************)
(* OrderService.update_cart_item, remove_from_cart, clear_cart             *)
(***************************************************************************)
\* CartItemsById with a fault: the line is looked up by id alone, in any cart.
CartItemsByIdInAnyCart(db, u, id) == {l \in db.cartItems : l.id = id}

\* CartItem.objects.get(id=cart_item_id, cart=cart)
CartItemsById(db, u, id) == {l \in db.cartItems : l.id = id /\ l.cart = u}

\* RemovesLine with a fault: a quantity of 0 is stored, not taken as a
\* removal.
RemovesLineBelowZero(q) == q < 0

\* if quantity <= 0: cart_item.delete()
RemovesLine(q) == q <= 0

update_cart_item(db, u, id, q) ==
    LET st == get_or_create_cart(Start(db), u)
        found == CartItemsById(st.db, u, id)
    IN  IF found = {}
        THEN Result(st.db, st, FALSE, "Cart item not found")
        ELSE LET l == CHOOSE x \in found : TRUE
             IN  IF RemovesLine(q)
                 THEN LET s1 == Write(st, 0, [st.db EXCEPT !.cartItems = @ \ {l}])
                      IN  Result(s1.db, s1, TRUE, "Item removed from cart")
                 ELSE LET a == available_stock(st.db, l.product, l.variant)
                      IN  IF a.raised
                          THEN Failed(db, Raise(st, "AttributeError"),
                                      "Error updating cart item")
                          ELSE IF a.value < q
                          THEN Result(st.db, st, FALSE,
                                      "Only N items available in stock")
                          ELSE LET s1 == Write(st, 0,
                                           [st.db EXCEPT !.cartItems =
                                               (@ \ {l}) \cup
                                               {[l EXCEPT !.quantity = q]}])
                               IN  Result(s1.db, s1, TRUE,
                                          "Cart item updated successfully")

remove_from_cart(db, u, id) ==
    LET st == get_or_create_cart(Start(db), u)
        found == CartItemsById(st.db, u, id)
    IN  IF found = {}
        THEN Result(st.db, st, FALSE, "Cart item not found")
        ELSE LET s1 == Write(st, 0, [st.db EXCEPT !.cartItems = @ \ found])
             IN  Result(s1.db, s1, TRUE, "Item removed from cart successfully")

clear_cart(db, u) ==
    LET st == get_or_create_cart(Start(db), u)
        s1 == IF ItemsOf(st.db, u) = {} THEN st
              ELSE Write(st, 0, [st.db EXCEPT !.cartItems = @ \ ItemsOf(st.db, u)])
    IN  Result(s1.db, s1, TRUE, "Cart cleared successfully")

(***************************************************************************)
(* OrderService.update_order_status                                        *)
(***************************************************************************)
NoNote == "None"                 \* notes=None, the parameter's default

\* Values of new_status a caller passes.
StatusChoices == {"processing", "shipped", "delivered"}

NoteChoices == {NoNote, "", "left the warehouse"}

\* Order ids a caller passes: the first order's, and one no order has.
OrderIdChoices == {1, 99}

\* Python truth of the notes argument: None and '' are false.
Truthy(notes) == notes # NoNote /\ notes # ""

\* f"Status changed from {old_status} to {new_status}"
DefaultNote(old, new) == "Status changed from " \o old \o " to " \o new

\* SetTimestamps with a fault: the timestamp is written on every entry.
SetTimestampsAlways(o, new, t) ==
    IF new = "shipped" THEN [o EXCEPT !.shipped_at = t]
    ELSE IF new = "delivered" THEN [o EXCEPT !.delivered_at = t]
    ELSE o

\* "Update timestamps based on status"
SetTimestamps(o, new, t) ==
    IF new = "shipped" /\ o.shipped_at = NoTime
    THEN [o EXCEPT !.shipped_at = t]
    ELSE IF new = "delivered" /\ o.delivered_at = NoTime
    THEN [o EXCEPT !.delivered_at = t]
    ELSE o

\* HistoryNote with a fault: the default note is always used.
HistoryNoteDefaultOnly(notes, old, new) == DefaultNote(old, new)

\* notes or f"Status changed from {old_status} to {new_status}"
HistoryNote(notes, old, new) ==
    IF Truthy(notes) THEN notes ELSE DefaultNote(old, new)

\* Order.STATUS_CHOICES
STATUS_CHOICES ==
    {"pending", "confirmed", "processing", "shipped", "delivered",
     "cancelled", "refunded"}

\* The place of a status in the order's life, as STATUS_CHOICES lists them
StatusRank(x) ==
    CASE x = "pending" -> 1 [] x = "confirmed" -> 2 [] x = "processing" -> 3
      [] x = "shipped" -> 4 [] x = "delivered" -> 5 [] x = "cancelled" -> 6
      [] OTHER -> 7

\* StatusAfter with a fault: a status earlier in the order's life is not
\* taken.
StatusAfterForwardOnly(old, new) ==
    IF StatusRank(new) < StatusRank(old) THEN old ELSE new

\* old_status = order.status; order.status = new_status
StatusAfter(old, new) == new

update_order_status(db, oid, new, notes, by, t) ==
    IF oid \notin DOMAIN db.orders
    THEN Result(db, Start(db), FALSE, "Order not found")
    ELSE LET old == db.orders[oid].status
             o == SetTimestamps([db.orders[oid] EXCEPT
                                    !.status = StatusAfter(old, new)], new, t)
             s1 == Write(Start(db), 0, [db EXCEPT !.orders[oid] = o])
             s2 == Write(s1, 0,
                         [s1.db EXCEPT !.history =
                             Append(@, [order |-> oid, status |-> new,
                                        notes |-> HistoryNote(notes, old, new),
                                        created_by |-> by])])
         IN  Result(Atomic(db, s2), s2, TRUE,
                    "Order status updated successfully")

(***************************************************************************)
(* OrderUpdateSerializer.update                                            *)
(***************************************************************************)
NoData == [k \in {} |-> ""]      \* validated_data without any field

\* validated_data.get(key, default)
Get(data, key, default) == IF key \in DOMAIN data THEN data[key] ELSE default

\* StatusChanged with a fault: no change of status is seen.
StatusChangedNever(old, new) == FALSE

\* if old_status != new_status
StatusChanged(old, new) == old # new

\* ModelSerializer.update: setattr for every field of validated_data, save
SerializerSave(o, data) ==
    [f \in DOMAIN o |-> IF f \in DOMAIN data THEN data[f] ELSE o[f]]

order_update_serializer_update(db, oid, data, by) ==
    LET old == db.orders[oid].status
        new == Get(data, "status", old)
        s1 == Write(Start(db), 0,
                    [db EXCEPT !.orders[oid] = SerializerSave(@, data)])
        s2 == IF StatusChanged(old, new)
              THEN Write(s1, 0,
                         [s1.db EXCEPT !.history =
                             Append(@, [order |-> oid, status |-> new,
                                        notes |-> DefaultNote(old, new),
                                        created_by |-> by])])
              ELSE s1
    IN  Result(s2.db, s2, TRUE, "")

(***************************************************************************)
(* Catalogue administration and later saves of an order item.              *)
(***************************************************************************)
\* Collector of Model.delete(): the rows whose CASCADE foreign key points
\* at a deleted product or variant go with it.
CascadeProduct(db, p) ==
    [db EXCEPT
        !.products = [x \in DOMAIN db.products \ {p} |-> db.products[x]],
        !.variants = [v \in {w \in DOMAIN db.variants :
                                 db.variants[w].product # p} |-> db.variants[v]],
        !.cartItems = {l \in db.cartItems : l.product # p},
        !.orderItems = {oi \in db.orderItems : oi.product # p}]

CascadeVariant(db, v) ==
    [db EXCEPT
        !.variants = [w \in DOMAIN db.variants \ {v} |-> db.variants[w]],
        !.cartItems = {l \in db.cartItems : l.variant # v},
        !.orderItems = {oi \in db.orderItems : oi.variant # v}]

\* admin_product_delete: get_object_or_404, product.delete()
admin_product_delete(db, p) ==
    IF p \notin DOMAIN db.products
    THEN Result(db, Start(db), FALSE, "404")
    ELSE LET s1 == Write(Start(db), 0, CascadeProduct(db, p))
         IN  Result(s1.db, s1, TRUE, "Producto eliminado")

(***************************************************************************)
(* Reviews: add_review (products/product_views.py) and the two summary     *)
(* services.  A comment is a sequence of tokens, each a word or one space; *)
(* a rating as the request body carries it is a number of tenths.          *)
(***************************************************************************)
MinRating == 1
MaxRating == 5
MinCommentLength == 10

\* The review tables with the products they refer to.
RDB == [products |-> products, reviews |-> reviews, summaries |-> summaries]

\* int(x): truncation toward zero
int(tenths) == IF tenths >= 0 THEN tenths \div 10 ELSE -((-tenths) \div 10)

RECURSIVE lstrip(_)
lstrip(c) == IF c # <<>> /\ Head(c) = " " THEN lstrip(Tail(c)) ELSE c

RECURSIVE rstrip(_)
rstrip(c) ==
    IF c # <<>> /\ c[Len(c)] = " " THEN rstrip(SubSeq(c, 1, Len(c) - 1)) ELSE c

\* str.strip()
strip(c) == rstrip(lstrip(c))

\* len(str): the characters of all tokens
RECURSIVE len(_)
len(c) == IF c = <<>> THEN 0 ELSE Len(Head(c)) + len(Tail(c))

\* Review.objects.filter(product=product, is_approved=True)
ApprovedReviews(db, p) == {r \in db.reviews : r.product = p /\ r.is_approved}

RECURSIVE SumRatings(_)
SumRatings(rs) ==
    IF rs = {} THEN 0
    ELSE LET r == CHOOSE x \in rs : TRUE IN r.rating + SumRatings(rs \ {r})

\* round(avg, 2) of the mean rating, in hundredths (ties to even)
AverageRating(rs) ==
    LET n == Cardinality(rs)
        x == SumRatings(rs) * 100
        q == x \div n
        r == x % n
    IN  IF 2 * r > n \/ (2 * r = n /\ q % 2 = 1) THEN q + 1 ELSE q

\* ReviewSummary.objects.update_or_create(product=product, defaults=...)
UpdateOrCreate(db, row) ==
    [db EXCEPT !.summaries = {x \in @ : x.product # row.product} \cup {row}]

\* response.choices[0].message.content: whatever the model wrote
AiText == "AI: summary of the reviews"

\* The names bound at module level in services/ai_review_service.py.
AIServiceNames ==
    {"openai", "logging", "settings", "transaction", "Review",
     "ReviewSummary", "Product", "logger", "AIReviewSummaryService",
     "ai_review_service"}

\* AIReviewSummaryService.generate_summary; client is "none" without a
\* credential, else "ok" or "error" as the external call goes.
generate_summary(db, p, client) ==
    IF client = "none"
    THEN "AI summary unavailable - API key not configured"
    ELSE IF p \notin DOMAIN db.products THEN "Product not found"
    ELSE IF ApprovedReviews(db, p) = {}
    THEN "No reviews available for this product yet."
    ELSE IF client = "error" THEN "Error generating summary: APIError"
    ELSE AiText

\* AIReviewSummaryService.update_product_summary.  models.Avg is evaluated
\* after generate_summary has returned; a name the module does not bind
\* raises NameError, which leaves the atomic block and returns False.
update_product_summary(db, p, client) ==
    IF p \notin DOMAIN db.products THEN [db |-> db, ok |-> FALSE]
    ELSE IF ApprovedReviews(db, p) = {}
    THEN [db |-> [db EXCEPT !.summaries = {x \in @ : x.product # p}],
          ok |-> TRUE]
    ELSE LET text == generate_summary(db, p, client)
             rs == ApprovedReviews(db, p)
         IN  IF "models" \notin AIServiceNames
             THEN [db |-> db, ok |-> FALSE]
             ELSE [db |-> UpdateOrCreate(db,
                            [product |-> p, summary |-> text,
                             total_reviews |-> Cardinality(rs),
                             average_rating |-> AverageRating(rs)]),
                   ok |-> TRUE]

(***************************************************************************)
(* ReviewSummaryService (services/review_service.py)                       *)
(***************************************************************************)
positive_keywords ==
    {"good", "great", "excellent", "amazing", "love", "perfect", "quality"}

negative_keywords ==
    {"bad", "poor", "terrible", "hate", "awful", "disappointed", "problem"}

\* sum(1 for line in lines for keyword in keywords if keyword in line)
RECURSIVE KeywordCount(_, _)
KeywordCount(rs, keywords) ==
    IF rs = {} THEN 0
    ELSE LET r == CHOOSE x \in rs : TRUE
         IN  Cardinality({k \in keywords :
                            \E i \in DOMAIN r.comment : r.comment[i] = k})
               + KeywordCount(rs \ {r}, keywords)

\* ReviewSummaryService._create_fallback_text_summary
create_fallback_text_summary(rs) ==
    LET pos == KeywordCount(rs, positive_keywords)
        neg == KeywordCount(rs, negative_keywords)
    IN  IF pos > neg
        THEN "customers are generally satisfied with this product"
        ELSE IF neg > pos
        THEN "customers have raised some concerns about this product"
        ELSE "customers have mixed opinions about this product"

\* The sentence _create_fallback_summary chooses by the mean rating.
FallbackSentence(rs) ==
    LET n == Cardinality(rs)
    IN  IF SumRatings(rs) >= 4 * n
        THEN "Customers are generally very satisfied with this product."
        ELSE IF SumRatings(rs) >= 3 * n
        THEN "Customers have mixed feelings about this product."
        ELSE "Some customers have expressed concerns about this product."

\* The dict of summary data stored for a product.
SummaryRow(p, text, rs) ==
    [product |-> p, summary |-> text, total_reviews |-> Cardinality(rs),
     average_rating |-> AverageRating(rs)]

\* ReviewSummaryService._create_fallback_summary
create_fallback_summary(db, p) ==
    IF p \notin DOMAIN db.products \/ ApprovedReviews(db, p) = {} THEN db
    ELSE UpdateOrCreate(db, SummaryRow(p, FallbackSentence(ApprovedReviews(db, p)),
                                       ApprovedReviews(db, p)))

\* ReviewSummaryService._call_openai_api
call_openai_api(rs, client) ==
    IF client = "ok" THEN AiText ELSE create_fallback_text_summary(rs)

\* ReviewSummaryService.generate_review_summary
generate_review_summary(db, p, client) ==
    IF client = "none" THEN create_fallback_summary(db, p)
    ELSE IF p \notin DOMAIN db.products \/ ApprovedReviews(db, p) = {} THEN db
    ELSE UpdateOrCreate(db, SummaryRow(p, call_openai_api(ApprovedReviews(db, p),
                                                          client),
                                       ApprovedReviews(db, p)))

(***************************************************************************)
(* The sentiment score of a mean rating.  A mean is given by the total and *)
(* the number of the ratings; a score is a number of hundredths.  The      *)
(* floats involved are exact, or off by far less than a rounding step,     *)
(* for the numbers of reviews tried here.                                  *)
(***************************************************************************)
Abs(x) == IF x < 0 THEN -x ELSE x

\* num / den rounded to an integer, ties to even (den > 0)
RoundHalfEven(num, den) ==
    LET q == num \div den
        r == num % den
    IN  IF 2 * r > den \/ (2 * r = den /\ q % 2 = 1) THEN q + 1 ELSE q

\* calculate_sentiment_score with a fault: the division by 2 is missing.
calculate_sentiment_score_undivided(total, count) ==
    RoundHalfEven((total - 3 * count) * 100, count)

\* AIReviewSummaryService._calculate_sentiment_score(avg_rating), where
\* avg_rating = total / count: round((avg_rating - 3) / 2, 2) on each branch
calculate_sentiment_score(total, count) ==
    IF total <= 2 * count
    THEN RoundHalfEven((total - 3 * count) * 100, 2 * count)
    ELSE IF total >= 4 * count
    THEN RoundHalfEven((total - 3 * count) * 100, 2 * count)
    ELSE RoundHalfEven((total - 3 * count) * 100, 2 * count)

\* What DecimalField(max_digits=3, decimal_places=2) stores of the float
\* num / den: the float as a Decimal of three significant digits, quantized
\* to two places, both ties to even.
StoredDecimal32(num, den) ==
    IF Abs(num) >= den THEN RoundHalfEven(num * 100, den)
    ELSE IF 10 * Abs(num) >= den
    THEN RoundHalfEven(RoundHalfEven(num * 1000, den), 10)
    ELSE IF 100 * Abs(num) >= den
    THEN RoundHalfEven(RoundHalfEven(num * 10000, den), 100)
    ELSE RoundHalfEven(RoundHalfEven(num * 100000, den), 1000)

\* 'sentiment_score': (average_rating - 3) / 2 of _create_fallback_summary,
\* as the review_summaries row holds it
fallback_sentiment_score(total, count) ==
    StoredDecimal32(total - 3 * count, 2 * count)

(***************************************************************************)
(* add_review (products/product_views.py)                                  *)
(***************************************************************************)
\* HasReviewed with a fault: the check for an earlier review is missing.
HasReviewedUnchecked(db, p, u) == FALSE

\* Review.objects.filter(product=product, user=request.user).exists()
HasReviewed(db, p, u) == \E r \in db.reviews : r.product = p /\ r.user = u

\* ReviewOutcome with a fault: success needs the summary to be updated.
ReviewOutcomeNeedsSummary(created, summary_ok) == created /\ summary_ok

\* try: update_product_summary(...) except Exception: pass; 'success': True
ReviewOutcome(created, summary_ok) == created

add_review(db, u, p, rating, comment, client) ==
    LET Fail(e) == [db |-> db, ok |-> FALSE, error |-> e]
    IN  IF p \notin DOMAIN db.products \/ db.products[p].status # "active"
        THEN Fail("Error al agregar la resena")
        ELSE IF HasReviewed(db, p, u)
        THEN Fail("Ya has resenado este producto")
        ELSE IF ~(MinRating <= int(rating) /\ int(rating) <= MaxRating)
        THEN Fail("La calificacion debe estar entre 1 y 5")
        ELSE IF len(strip(comment)) < MinCommentLength
        THEN Fail("El comentario debe tener al menos 10 caracteres")
        ELSE IF \E r \in db.reviews : r.product = p /\ r.user = u
        THEN Fail("Error al agregar la resena")
        ELSE LET row == [product |-> p, user |-> u, rating |-> int(rating),
                         comment |-> strip(comment), is_approved |-> TRUE]
                 db1 == [db EXCEPT !.reviews = @ \cup {row}]
                 s == update_product_summary(db1, p, client)
             IN  IF ReviewOutcome(TRUE, s.ok)
                 THEN [db |-> s.db, ok |-> TRUE, error |-> ""]
                 ELSE [db |-> s.db, ok |-> FALSE,
                       error |-> "Error al agregar la resena"]

(***************************************************************************)
(* Categories (products/models.py) and the serializer, form and views that *)
(* write them.  A name is a sequence of words; a category table is a       *)
(* function from primary keys to rows; the categories here hold no         *)
(* products.                                                               *)
(***************************************************************************)
NoCategory == 0                  \* parent None / NULL foreign key

CategoryNameChoices == {<<"Cascos">>, <<"Cascos", "1">>}

\* str.lower() of a word
lower(w) == IF w = "Cascos" THEN "cascos" ELSE w

\* django.utils.text.slugify: lower case, the words joined by hyphens
RECURSIVE slugify(_)
slugify(name) ==
    IF name = <<>> THEN ""
    ELSE IF Len(name) = 1 THEN lower(name[1])
    ELSE lower(name[1]) \o "-" \o slugify(Tail(name))

\* SlugWithCounter with a fault: the numbering starts one too high.
SlugWithCounterNext(base, counter) == base \o "-" \o ToString(counter + 1)

\* f"{base_slug}-{counter}"
SlugWithCounter(base, counter) == base \o "-" \o ToString(counter)

\* Category.objects.filter(slug=slug).exists()
SlugExists(cats, slug) == \E c \in DOMAIN cats : cats[c].slug = slug

\* while Category.objects.filter(slug=slug).exists():
\*     slug = f"{base_slug}-{counter}"; counter += 1
RECURSIVE FindFreeSlug(_, _, _, _)
FindFreeSlug(cats, base, slug, counter) ==
    IF SlugExists(cats, slug)
    THEN FindFreeSlug(cats, base, SlugWithCounter(base, counter), counter + 1)
    ELSE [slug |-> slug, counter |-> counter]

\* Category.save: a row without slug gets the first free one
CategorySave(cats, id, row) ==
    LET found == FindFreeSlug(cats, slugify(row.name), slugify(row.name), 1)
        saved == IF row.slug = "" THEN [row EXCEPT !.slug = found.slug] ELSE row
    IN  [c \in DOMAIN cats \cup {id} |-> IF c = id THEN saved ELSE cats[c]]

\* The unique_together check of a form or serializer: made only when no
\* value of the pair is None.
UniqueTogetherOk(cats, id, name, parent) ==
    \/ parent = NoCategory
    \/ ~\E c \in DOMAIN cats \ {id} :
            cats[c].name = name /\ cats[c].parent = parent

\* The loop of validate_parent: "ok" at the end of the chain, "circular" on
\* meeting the instance; a walk longer than the table is in a cycle that
\* does not hold the instance and never ends.
RECURSIVE WalkParents(_, _, _, _)
WalkParents(cats, parent, instance, steps) ==
    IF parent = NoCategory THEN "ok"
    ELSE IF parent = instance THEN "circular"
    ELSE IF steps > Cardinality(DOMAIN cats) THEN "no return"
    ELSE WalkParents(cats, cats[parent].parent, instance, steps + 1)

\* CategorySerializer.validate_parent; instance is NoCategory on creation
validate_parent(cats, instance, value) ==
    IF value = NoCategory \/ instance = NoCategory THEN "ok"
    ELSE WalkParents(cats, value, instance, 1)

\* The result of a category operation, with the table it leaves behind.
CategoryResult(cats, ok, msg) == [cats |-> cats, ok |-> ok, msg |-> msg]

\* CategoryListView.post (CategorySerializer) and admin_category_create
\* (CategoryForm): neither has a slug field, Category.save generates it.
category_create(cats, id, name, parent) ==
    IF ~UniqueTogetherOk(cats, id, name, parent)
    THEN CategoryResult(cats, FALSE, "name and parent must be unique")
    ELSE CategoryResult(
             CategorySave(cats, id, [name |-> name, slug |-> "",
                                     parent |-> parent]),
             TRUE, "")

\* CategoryDetailView.put / patch: CategorySerializer with an instance
category_serializer_update(cats, id, name, parent) ==
    LET v == validate_parent(cats, id, parent)
    IN  IF v = "no return"
        THEN CategoryResult(cats, FALSE, "no response")
        ELSE IF v = "circular"
        THEN CategoryResult(cats, FALSE, "circular reference")
        ELSE IF ~UniqueTogetherOk(cats, id, name, parent)
        THEN CategoryResult(cats, FALSE, "name and parent must be unique")
        ELSE CategoryResult(
                 CategorySave(cats, id, [cats[id] EXCEPT !.name = name,
                                                         !.parent = parent]),
                 TRUE, "")

\* admin_category_edit: CategoryForm with an instance; the parent field is
\* a choice among all categories.
admin_category_edit(cats, id, name, parent) ==
    IF ~UniqueTogetherOk(cats, id, name, parent)
    THEN CategoryResult(cats, FALSE, "name and parent must be unique")
    ELSE CategoryResult(
             CategorySave(cats, id, [cats[id] EXCEPT !.name = name,
                                                     !.parent = parent]),
             TRUE, "")

\* The rows Model.delete() collects: the category and, by the CASCADE of
\* Category.parent, every category below it.
RECURSIVE Collected(_, _)
Collected(cats, S) ==
    LET more == S \cup {c \in DOMAIN cats : cats[c].parent \in S}
    IN  IF more = S THEN S ELSE Collected(cats, more)

\* admin_category_delete
admin_category_delete(cats, id) ==
    CategoryResult([c \in DOMAIN cats \ Collected(cats, {id}) |-> cats[c]],
                   TRUE, "")

(***************************************************************************)
(* Calls that run at the same time.  Each call runs in a transaction of    *)
(* its own (transaction.atomic) at the store's default isolation, READ     *)
(* COMMITTED: a query sees what has been committed when it runs, a write   *)
(* stays with the transaction until it commits and holds the row's lock,   *)
(* for which a second writer of the row waits.                             *)
(***************************************************************************)
CallIds == {"a", "b"}

\* No pending write: the empty function from variants to stock values.
NoWrites == [v \in {} |-> 0]

\* A call slot nothing runs in.
Idle ==
    [op |-> "none", user |-> NoUser, pc |-> "idle", args |-> <<>>,
     lines |-> <<>>, i |-> 0, sub |-> 0, seen |-> 0, stock |-> NoWrites,
     cart |-> FALSE, before |-> {}, ok |-> FALSE, msg |-> ""]

\* NewStock with a fault: the decrement is applied to the row as it is at
\* the time of the write, not to the value read before.
NewStockOfRow(seen, row, q) == row - q

\* cart_item.variant.stock -= cart_item.quantity, on the instance loaded
\* before; variant.save() writes that value
NewStock(seen, row, q) == seen - q

(***************************************************************************)
(* The initial database: the catalogue, and carts holding seeded lines.    *)
(***************************************************************************)
\* The (cart, product, variant) combinations a seeded line may have, with
\* the primary key of the line.
SeedLines ==
    {[id |-> 1, cart |-> "u1", product |-> "p1", variant |-> "v1"],
     [id |-> 2, cart |-> "u1", product |-> "p1", variant |-> "v2"],
     [id |-> 3, cart |-> "u2", product |-> "p1", variant |-> "v1"],
     [id |-> 4, cart |-> "u2", product |-> "p1", variant |-> NoVariant]}

SeedIds == {s.id : s \in SeedLines}

Init ==
    /\ products = [p \in Products |->
                     [price |-> 3333, stock_quantity |-> ProductInitStock,
                      status |-> "active", name |-> "Helmet",
                      sku |-> "HEL-1"]]
    /\ variants = [v \in Variants |->
                     [product |-> "p1", price_adjustment |-> 0,
                      stock |-> VariantInitStock, is_active |-> TRUE,
                      name |-> IF v = "v1" THEN "Red" ELSE "Blue"]]
    /\ \E qty \in [SeedIds -> 0..MaxQty] :
          cartItems = {[id |-> s.id, cart |-> s.cart, product |-> s.product,
                        variant |-> s.variant, quantity |-> qty[s.id]] :
                       s \in {x \in SeedLines : qty[x.id] > 0}}
    /\ \E cs \in SUBSET Users :
          /\ \A l \in cartItems : l.cart \in cs
          /\ carts = cs
    /\ nextItemId = 5
    /\ orders = <<>>
    /\ orderItems = {}
    /\ history = <<>>
    /\ priceEdits = 0
    /\ now = 1
    /\ reviews = {}
    /\ summaries = {}
    /\ categories = <<>>
    /\ nextCategoryId = 1
    /\ calls = [c \in CallIds |-> Idle]
    /\ last = [op |-> "init", user |-> NoUser, ok |-> TRUE, msg |-> "", writes |-> 0]

(***************************************************************************)
(* One action per operation.                                               *)
(***************************************************************************)
Tables(r) ==
    /\ products' = r.db.products
    /\ variants' = r.db.variants
    /\ carts' = r.db.carts
    /\ cartItems' = r.db.cartItems
    /\ nextItemId' = r.db.nextItemId
    /\ orders' = r.db.orders
    /\ orderItems' = r.db.orderItems
    /\ history' = r.db.history

Store(r) == Tables(r) /\ UNCHANGED others

Commit(r, op, u) ==
    /\ Store(r)
    /\ last' = [op |-> op, user |-> u, ok |-> r.ok, msg |-> r.msg,
                writes |-> r.writes]

AddToCart ==
    \E u \in Users, pid \in ProductIds, vid \in VariantIds, q \in 0..MaxQty :
        /\ nextItemId <= MaxItemId
        /\ Commit(add_to_cart(DB, u, pid, vid, q), "add_to_cart", u)

UpdateCartItem ==
    \E u \in Users, id \in 1..MaxItemId, q \in 0..(MaxQty + 1) :
        Commit(update_cart_item(DB, u, id, q), "update_cart_item", u)

RemoveFromCart ==
    \E u \in Users, id \in 1..MaxItemId :
        Commit(remove_from_cart(DB, u, id), "remove_from_cart", u)

ClearCart ==
    \E u \in Users : Commit(clear_cart(DB, u), "clear_cart", u)

\* The statements create_order executes for a cart of n lines: the order,
\* an order item and a stock update per line, the history row, the delete.
Statements(n) == 2 * n + 3

CreateOrder ==
    \E u \in Users :
      \E fault \in 0..Statements(Cardinality(ItemsOf(DB, u))) :
        /\ Len(orders) < MaxOrders
        /\ Commit(create_order(DB, u, fault), "create_order", u)

\* An administrator saves a product with a new price (ProductForm), or a
\* variant with a new price_adjustment (ProductVariantAdmin.list_editable).
AdminSetPrice ==
    \E p \in Products, c \in PriceChoices :
        /\ priceEdits < MaxPriceEdits
        /\ priceEdits' = priceEdits + 1
        /\ products' = [products EXCEPT ![p].price = c]
        /\ last' = [op |-> "admin_set_price", user |-> NoUser, ok |-> TRUE,
                    msg |-> "", writes |-> 1]
        /\ UNCHANGED <<variants, carts, cartItems, nextItemId, orders,
                       orderItems, history, now, reviews, summaries,
                       categories, nextCategoryId, calls>>

AdminSetPriceAdjustment ==
    \E v \in Variants, c \in AdjChoices :
        /\ priceEdits < MaxPriceEdits
        /\ priceEdits' = priceEdits + 1
        /\ variants' = [variants EXCEPT ![v].price_adjustment = c]
        /\ last' = [op |-> "admin_set_price_adjustment", user |-> NoUser,
                    ok |-> TRUE, msg |-> "", writes |-> 1]
        /\ UNCHANGED <<products, carts, cartItems, nextItemId, orders,
                       orderItems, history, now, reviews, summaries,
                       categories, nextCategoryId, calls>>

Next ==
    \/ AddToCart
    \/ UpdateCartItem
    \/ RemoveFromCart
    \/ ClearCart
    \/ CreateOrder
    \/ AdminSetPrice
    \/ AdminSetPriceAdjustment

Spec == Init /\ [][Next]_vars

(***************************************************************************)
(* The order workflow alone: checkouts of the seeded carts, and price      *)
(* edits.  Init seeds every combination of cart lines the cart operations  *)
(* can produce, so leaving them out removes no database state.             *)
(***************************************************************************)
OrderNext ==
    \/ CreateOrder
    \/ AdminSetPrice
    \/ AdminSetPriceAdjustment

OrderSpec == Init /\ [][OrderNext]_vars

(***************************************************************************)
(* The cart manager alone, each call recorded with its arguments.          *)
(***************************************************************************)
CommitCall(r, op, u, a) ==
    /\ Store(r)
    /\ last' = [op |-> op, user |-> u, ok |-> r.ok, msg |-> r.msg,
                writes |-> r.writes, args |-> a]

AddToCartCall ==
    \E u \in Users, pid \in ProductIds, vid \in VariantIds, q \in -1..MaxQty :
        /\ nextItemId <= MaxItemId
        /\ CommitCall(add_to_cart(DB, u, pid, vid, q), "add_to_cart", u,
                      [product_id |-> pid, variant_id |-> vid, quantity |-> q])

UpdateCartItemCall ==
    \E u \in Users, id \in 1..MaxItemId, q \in -1..(MaxQty + 1) :
        CommitCall(update_cart_item(DB, u, id, q), "update_cart_item", u,
                   [cart_item_id |-> id, quantity |-> q])

RemoveFromCartCall ==
    \E u \in Users, id \in 1..MaxItemId :
        CommitCall(remove_from_cart(DB, u, id), "remove_from_cart", u,
                   [cart_item_id |-> id])

ClearCartCall ==
    \E u \in Users : CommitCall(clear_cart(DB, u), "clear_cart", u, [none |-> 0])

CartNext ==
    \/ AddToCartCall
    \/ UpdateCartItemCall
    \/ RemoveFromCartCall
    \/ ClearCartCall

CartSpec == Init /\ [][CartNext]_vars

(***************************************************************************)
(* The cart manager with checkouts.                                        *)
(***************************************************************************)
ShopNext ==
    \/ AddToCartCall
    \/ UpdateCartItemCall
    \/ RemoveFromCartCall
    \/ ClearCartCall
    \/ CreateOrder

ShopSpec == Init /\ [][ShopNext]_vars

(***************************************************************************)
(* Orders after their creation: status updates, catalogue edits and        *)
(* deletions, later saves of order items.                                  *)
(***************************************************************************)
MaxTime == 4            \* the clock stops the status updates at this time

\* The clock shows a later time at every update that reads it.
UpdateOrderStatusCall ==
    \E oid \in OrderIdChoices, new \in StatusChoices, notes \in NoteChoices,
       by \in Users :
        /\ now < MaxTime
        /\ UNCHANGED <<priceEdits, reviews, summaries, categories,
                       nextCategoryId, calls>>
        /\ LET r == update_order_status(DB, oid, new, notes, by, now)
           IN  /\ Tables(r)
               /\ now' = IF r.ok THEN now + 1 ELSE now
               /\ last' = [op |-> "update_order_status", user |-> by,
                           ok |-> r.ok, msg |-> r.msg, writes |-> r.writes,
                           args |-> [order_id |-> oid, new_status |-> new,
                                     notes |-> notes]]

\* ProductAdmin / ProductForm: an administrator saves a product with another
\* name or sku.
AdminEditProduct ==
    \E p \in DOMAIN products, n \in NameChoices, k \in SkuChoices :
        /\ <<n, k>> # <<products[p].name, products[p].sku>>
        /\ products' = [products EXCEPT ![p].name = n, ![p].sku = k]
        /\ last' = [op |-> "admin_edit_product", user |-> NoUser, ok |-> TRUE,
                    msg |-> "", writes |-> 1]
        /\ UNCHANGED <<variants, carts, cartItems, nextItemId, orders,
                       orderItems, history, others>>

\* ProductVariantInline / ProductVariantAdmin: a variant is renamed.
AdminEditVariant ==
    \E v \in DOMAIN variants, n \in VariantNameChoices :
        /\ n # variants[v].name
        /\ \A w \in DOMAIN variants :
              variants[w].product = variants[v].product => variants[w].name # n
        /\ variants' = [variants EXCEPT ![v].name = n]
        /\ last' = [op |-> "admin_edit_variant", user |-> NoUser, ok |-> TRUE,
                    msg |-> "", writes |-> 1]
        /\ UNCHANGED <<products, carts, cartItems, nextItemId, orders,
                       orderItems, history, others>>

\* order_item.save() on a row that exists.
OrderItemResave ==
    \E oi \in orderItems :
        /\ orderItems' = (orderItems \ {oi}) \cup {OrderItemSave(DB, oi)}
        /\ last' = [op |-> "order_item_save", user |-> NoUser, ok |-> TRUE,
                    msg |-> "", writes |-> 1]
        /\ UNCHANGED <<products, variants, carts, cartItems, nextItemId,
                       orders, history, others>>

AdminProductDelete ==
    \E p \in ProductIds :
        LET r == admin_product_delete(DB, p)
        IN  /\ Tables(r)
            /\ reviews' = {x \in reviews : x.product # p}
            /\ summaries' = {x \in summaries : x.product # p}
            /\ last' = [op |-> "admin_product_delete", user |-> NoUser,
                        ok |-> r.ok, msg |-> r.msg, writes |-> r.writes]
            /\ UNCHANGED <<priceEdits, now, categories, nextCategoryId, calls>>

\* ProductVariantAdmin's delete action, ProductVariantInline's delete box.
AdminVariantDelete ==
    \E v \in DOMAIN variants :
        /\ Tables([db |-> CascadeVariant(DB, v)])
        /\ last' = [op |-> "admin_variant_delete", user |-> NoUser,
                    ok |-> TRUE, msg |-> "", writes |-> 1]
        /\ UNCHANGED others

\* Checkouts followed by status updates.
StatusNext ==
    \/ CreateOrder
    \/ UpdateOrderStatusCall

\* The initial databases in which one cart holds one line, of variant v1.
StatusInit ==
    /\ Init
    /\ carts = {"u1"}
    /\ cartItems = {[id |-> 1, cart |-> "u1", product |-> "p1",
                     variant |-> "v1", quantity |-> 1]}

StatusSpec == StatusInit /\ [][StatusNext]_vars

\* Status updates with any of the statuses, through the service and
\* through the serializer, of the orders of two users.
MaxHistory == 3         \* order_status_history rows written at most

UpdateOrderStatusAny ==
    \E oid \in DOMAIN orders \cup {99}, new \in STATUS_CHOICES :
        /\ Len(history) < MaxHistory
        /\ UNCHANGED others
        /\ LET r == update_order_status(DB, oid, new, NoNote, "u1", now)
           IN  /\ Tables(r)
               /\ last' = [op |-> "update_order_status", user |-> "u1",
                           ok |-> r.ok, msg |-> r.msg, writes |-> r.writes,
                           args |-> [order_id |-> oid, new_status |-> new,
                                     notes |-> NoNote],
                           old_status |-> IF oid \in DOMAIN orders
                                          THEN orders[oid].status ELSE ""]

\* The fields a request sends to OrderUpdateSerializer: none, a status, a
\* time of shipping, or both.
ValidatedDataChoices ==
    {NoData, [shipped_at |-> now]}
        \cup {[status |-> x] : x \in STATUS_CHOICES}
        \cup {[status |-> x, shipped_at |-> now] : x \in {"shipped"}}

OrderUpdateSerializerUpdate ==
    \E oid \in DOMAIN orders, data \in ValidatedDataChoices :
        /\ Len(history) < MaxHistory
        /\ UNCHANGED others
        /\ LET r == order_update_serializer_update(DB, oid, data, "u1")
           IN  /\ Tables(r)
               /\ last' = [op |-> "order_update_serializer_update",
                           user |-> "u1", ok |-> r.ok, msg |-> r.msg,
                           writes |-> r.writes,
                           args |-> [order_id |-> oid, data |-> data],
                           old_status |-> orders[oid].status]

TransitionNext ==
    \/ CreateOrder
    \/ UpdateOrderStatusAny
    \/ OrderUpdateSerializerUpdate

\* The initial databases in which two carts hold one line each, of
\* variant v1.
TransitionInit ==
    /\ Init
    /\ carts = {"u1", "u2"}
    /\ cartItems = {[id |-> 1, cart |-> "u1", product |-> "p1",
                     variant |-> "v1", quantity |-> 1],
                    [id |-> 3, cart |-> "u2", product |-> "p1",
                     variant |-> "v1", quantity |-> 1]}

TransitionSpec == TransitionInit /\ [][TransitionNext]_vars

\* Checkouts followed by catalogue edits and deletions, saves of order
\* items and cart operations.
RecordNext ==
    \/ CreateOrder
    \/ AdminEditProduct
    \/ AdminEditVariant
    \/ OrderItemResave
    \/ AdminProductDelete
    \/ AdminVariantDelete
    \/ ClearCart

\* The initial databases in which one cart holds a line of each variant.
RecordInit ==
    /\ Init
    /\ carts = {"u1"}
    /\ cartItems = {[id |-> 1, cart |-> "u1", product |-> "p1",
                     variant |-> "v1", quantity |-> 1],
                    [id |-> 2, cart |-> "u1", product |-> "p1",
                     variant |-> "v2", quantity |-> 1]}

RecordSpec == RecordInit /\ [][RecordNext]_vars

(***************************************************************************)
(* Reviews and their summaries.                                            *)
(***************************************************************************)
RatingChoices == {0, 10, 50, 55, 60}     \* tenths: 0, 1, 5, 5.5, 6

CommentChoices ==
    {<<" ", " ", "bad", " ", " ", " ", " ", " ", " ", " ">>,
     <<" ", "great", " ", "helmet", " ">>}

ClientChoices == {"none", "ok", "error"}

\* The tables a review handler does not write.
orderTables == <<products, variants, carts, cartItems, nextItemId, orders,
                 orderItems, history, priceEdits, now, categories,
                 nextCategoryId, calls>>

AddReviewCall ==
    \E u \in Users, p \in ProductIds, rating \in RatingChoices,
       comment \in CommentChoices, client \in ClientChoices :
        LET r == add_review(RDB, u, p, rating, comment, client)
        IN  /\ reviews' = r.db.reviews
            /\ summaries' = r.db.summaries
            /\ last' = [op |-> "add_review", user |-> u, ok |-> r.ok,
                        msg |-> r.error,
                        args |-> [product_id |-> p, rating |-> rating,
                                  comment |-> comment, client |-> client]]
            /\ UNCHANGED orderTables

UpdateProductSummaryCall ==
    \E p \in ProductIds, client \in ClientChoices :
        LET r == update_product_summary(RDB, p, client)
        IN  /\ reviews' = r.db.reviews
            /\ summaries' = r.db.summaries
            /\ last' = [op |-> "update_product_summary", user |-> NoUser,
                        ok |-> r.ok, msg |-> "",
                        args |-> [product_id |-> p, client |-> client]]
            /\ UNCHANGED orderTables

GenerateReviewSummaryCall ==
    \E p \in ProductIds, client \in ClientChoices :
        LET db == generate_review_summary(RDB, p, client)
        IN  /\ reviews' = db.reviews
            /\ summaries' = db.summaries
            /\ last' = [op |-> "generate_review_summary", user |-> NoUser,
                        ok |-> TRUE, msg |-> "",
                        args |-> [product_id |-> p, client |-> client]]
            /\ UNCHANGED orderTables

\* A moderator approves or hides a review (Review.is_approved).
SetReviewApproval ==
    \E r \in reviews, b \in BOOLEAN :
        /\ b # r.is_approved
        /\ reviews' = (reviews \ {r}) \cup {[r EXCEPT !.is_approved = b]}
        /\ last' = [op |-> "set_review_approval", user |-> NoUser, ok |-> TRUE,
                    msg |-> "", args |-> [product_id |-> r.product]]
        /\ UNCHANGED <<summaries, orderTables>>

ReviewNext ==
    \/ AddReviewCall
    \/ UpdateProductSummaryCall
    \/ GenerateReviewSummaryCall
    \/ SetReviewApproval

\* The initial databases without carts.
ReviewInit ==
    /\ Init
    /\ carts = {}

ReviewSpec == ReviewInit /\ [][ReviewNext]_vars

(***************************************************************************)
(* The shipping cost of a subtotal.                                        *)
(***************************************************************************)
ShippingWindow == 60    \* cents below and above the threshold that are tried

SubtotalChoices ==
    {0} \cup ((FreeShippingThreshold - ShippingWindow)
                 ..(FreeShippingThreshold + ShippingWindow))

CalculateShippingCostCall ==
    \E sub \in SubtotalChoices :
        /\ last' = [op |-> "calculate_shipping_cost", user |-> NoUser,
                    ok |-> TRUE, msg |-> "", args |-> [subtotal |-> sub],
                    result |-> calculate_shipping_cost(sub)]
        /\ UNCHANGED <<dbvars, others>>

ShippingNext == CalculateShippingCostCall

ShippingSpec == ReviewInit /\ [][ShippingNext]_vars

(***************************************************************************)
(* The sentiment score of the approved ratings of a product.               *)
(***************************************************************************)
MaxReviews == 5         \* approved reviews of a product at most

\* The totals that count ratings, each from 1 to 5, can have.
TotalsOf(count) == (MinRating * count)..(MaxRating * count)

CalculateSentimentScoreCall ==
    \E count \in 1..MaxReviews :
      \E total \in TotalsOf(count) :
        /\ last' = [op |-> "calculate_sentiment_score", user |-> NoUser,
                    ok |-> TRUE, msg |-> "",
                    args |-> [total |-> total, count |-> count],
                    result |-> calculate_sentiment_score(total, count)]
        /\ UNCHANGED <<dbvars, others>>

FallbackSentimentScoreCall ==
    \E count \in 1..MaxReviews :
      \E total \in TotalsOf(count) :
        /\ last' = [op |-> "fallback_sentiment_score", user |-> NoUser,
                    ok |-> TRUE, msg |-> "",
                    args |-> [total |-> total, count |-> count],
                    result |-> fallback_sentiment_score(total, count)]
        /\ UNCHANGED <<dbvars, others>>

SentimentNext ==
    \/ CalculateSentimentScoreCall
    \/ FallbackSentimentScoreCall

SentimentSpec == ReviewInit /\ [][SentimentNext]_vars

(***************************************************************************)
(* The category tree.                                                      *)
(***************************************************************************)
MaxCategories == 2      \* categories created at most

\* What a category operation leaves alone.
notCategories == <<dbvars, priceEdits, now, reviews, summaries, calls>>

CategoryCommit(r, op, a, next) ==
    /\ categories' = r.cats
    /\ nextCategoryId' = next
    /\ last' = [op |-> op, user |-> NoUser, ok |-> r.ok, msg |-> r.msg,
                args |-> a]
    /\ UNCHANGED notCategories

CategoryCreate ==
    \E name \in CategoryNameChoices, parent \in DOMAIN categories \cup {NoCategory} :
        /\ nextCategoryId <= MaxCategories
        /\ LET r == category_create(categories, nextCategoryId, name, parent)
           IN  CategoryCommit(r, "category_create",
                              [id |-> nextCategoryId, name |-> name,
                               parent |-> parent],
                              IF r.ok THEN nextCategoryId + 1
                              ELSE nextCategoryId)

CategorySerializerUpdate ==
    \E id \in DOMAIN categories, name \in CategoryNameChoices,
       parent \in DOMAIN categories \cup {NoCategory} :
        CategoryCommit(category_serializer_update(categories, id, name, parent),
                       "category_serializer_update",
                       [id |-> id, name |-> name, parent |-> parent],
                       nextCategoryId)

AdminCategoryEdit ==
    \E id \in DOMAIN categories, name \in CategoryNameChoices,
       parent \in DOMAIN categories \cup {NoCategory} :
        CategoryCommit(admin_category_edit(categories, id, name, parent),
                       "admin_category_edit",
                       [id |-> id, name |-> name, parent |-> parent],
                       nextCategoryId)

AdminCategoryDelete ==
    \E id \in DOMAIN categories :
        CategoryCommit(admin_category_delete(categories, id),
                       "admin_category_delete",
                       [id |-> id, name |-> categories[id].name,
                        parent |-> categories[id].parent],
                       nextCategoryId)

CategoryNext ==
    \/ CategoryCreate
    \/ CategorySerializerUpdate
    \/ AdminCategoryEdit
    \/ AdminCategoryDelete

CategorySpec == ReviewInit /\ [][CategoryNext]_vars

(***************************************************************************)
(* Two calls at the same time: checkouts by different users, and           *)
(* add_to_cart calls.  A step of a call is one query or statement of its   *)
(* code, or its commit.                                                    *)
(***************************************************************************)
Returned == {c \in CallIds : calls[c].pc = "done"}

\* The call returns; ok and msg are its result.  An exception has rolled
\* back what the transaction had written.
Return(c, ok, msg) ==
    /\ calls' = [calls EXCEPT ![c].pc = "done", ![c].ok = ok, ![c].msg = msg,
                              ![c].stock = NoWrites, ![c].cart = FALSE]
    /\ last' = [op |-> calls[c].op, user |-> calls[c].user, ok |-> ok,
                msg |-> msg, writes |-> 0]

\* A request for create_order arrives; two checkouts of one user are not
\* made at the same time.
StartCreateOrder ==
    \E c \in CallIds, u \in Users :
        /\ calls[c].pc = "idle"
        /\ \A d \in CallIds : calls[d].op = "create_order" => calls[d].user # u
        /\ calls' = [calls EXCEPT ![c] = [Idle EXCEPT !.op = "create_order",
                                                      !.user = u,
                                                      !.pc = "validate",
                                                      !.before = Returned]]
        /\ UNCHANGED <<dbvars, priceEdits, now, reviews, summaries,
                       categories, nextCategoryId, last>>

\* "Get user's cart" to "Calculate totals": the cart, its lines and each
\* line's stock are read.
CoValidate ==
    \E c \in CallIds :
        /\ calls[c].op = "create_order" /\ calls[c].pc = "validate"
        /\ UNCHANGED <<dbvars, priceEdits, now, reviews, summaries,
                       categories, nextCategoryId>>
        /\ LET u == calls[c].user
               ls == SeqById(ItemsOf(DB, u))
               v == ValidateStock(DB, ls)
           IN  IF u \notin carts THEN Return(c, FALSE, "Cart not found")
               ELSE IF CartIsEmpty(DB, u) THEN Return(c, FALSE, "Cart is empty")
               ELSE IF v = "AttributeError"
               THEN Return(c, FALSE, "Error creating order: AttributeError")
               ELSE IF v = "insufficient"
               THEN Return(c, FALSE, "Insufficient stock")
               ELSE /\ calls' = [calls EXCEPT ![c].pc = "read",
                                              ![c].lines = ls,
                                              ![c].i = 1,
                                              ![c].sub = total_price(DB, u)]
                    /\ UNCHANGED last

\* "Update stock", first half: cart_item.variant loads the variant row.
CoRead ==
    \E c \in CallIds :
        /\ calls[c].op = "create_order" /\ calls[c].pc = "read"
        /\ calls' = [calls EXCEPT
                        ![c].pc = "write",
                        ![c].seen = variant_stock(DB, calls[c].lines[calls[c].i].variant)]
        /\ UNCHANGED <<dbvars, priceEdits, now, reviews, summaries,
                       categories, nextCategoryId, last>>

\* "Update stock", second half: variant.save().  The UPDATE waits while
\* another transaction holds a write of the row.
CoWrite ==
    \E c \in CallIds :
        /\ calls[c].op = "create_order" /\ calls[c].pc = "write"
        /\ LET l == calls[c].lines[calls[c].i]
               n == NewStock(calls[c].seen, variant_stock(DB, l.variant),
                             l.quantity)
           IN  /\ \A d \in CallIds \ {c} : l.variant \notin DOMAIN calls[d].stock
               /\ IF ~PositiveIntegerOk(n)
                  THEN Return(c, FALSE, "Error creating order: IntegrityError")
                  ELSE /\ calls' = [calls EXCEPT
                                       ![c].stock = (l.variant :> n) @@ @,
                                       ![c].i = @ + 1,
                                       ![c].pc = IF calls[c].i = Len(calls[c].lines)
                                                 THEN "commit" ELSE "read"]
                       /\ UNCHANGED last
        /\ UNCHANGED <<dbvars, priceEdits, now, reviews, summaries,
                       categories, nextCategoryId>>

\* The history row, the cart's lines deleted, and the commit: the order,
\* its items and the stock written become visible.
CoCommit ==
    \E c \in CallIds :
        /\ calls[c].op = "create_order" /\ calls[c].pc = "commit"
        /\ Len(orders) < MaxOrders
        /\ LET u == calls[c].user
               oid == Len(orders) + 1
               w == calls[c].stock
           IN  /\ orders' = Append(orders, NewOrder(oid, u, calls[c].sub))
               /\ orderItems' = orderItems \cup
                                    {NewOrderItem(DB, oid, calls[c].lines[k]) :
                                        k \in DOMAIN calls[c].lines}
               /\ variants' = [v \in DOMAIN variants |->
                                  IF v \in DOMAIN w
                                  THEN [variants[v] EXCEPT !.stock = w[v]]
                                  ELSE variants[v]]
               /\ history' = Append(history, [order |-> oid, status |-> "pending",
                                              notes |-> "Order created",
                                              created_by |-> u])
               /\ cartItems' = cartItems \ ItemsOf(DB, u)
        /\ Return(c, TRUE, "Order created successfully")
        /\ UNCHANGED <<products, carts, nextItemId, priceEdits, now, reviews,
                       summaries, categories, nextCategoryId>>

\* A request for add_to_cart arrives.
StartAddToCart ==
    \E c \in CallIds, u \in Users, pid \in ProductIds, vid \in VariantIds :
        /\ calls[c].pc = "idle"
        /\ calls' = [calls EXCEPT ![c] = [Idle EXCEPT
                        !.op = "add_to_cart", !.user = u, !.pc = "cart",
                        !.args = [product_id |-> pid, variant_id |-> vid,
                                  quantity |-> 1],
                        !.before = Returned]]
        /\ UNCHANGED <<dbvars, priceEdits, now, reviews, summaries,
                       categories, nextCategoryId, last>>

\* get_or_create_cart: the INSERT of a user's cart waits while another
\* transaction holds one for the same user.
AcGetCart ==
    \E c \in CallIds :
        /\ calls[c].op = "add_to_cart" /\ calls[c].pc = "cart"
        /\ \/ calls[c].user \in carts
           \/ \A d \in CallIds \ {c} :
                 ~(calls[d].cart /\ calls[d].user = calls[c].user)
        /\ calls' = [calls EXCEPT ![c].pc = "lookup",
                                  ![c].cart = calls[c].user \notin carts]
        /\ UNCHANGED <<dbvars, priceEdits, now, reviews, summaries,
                       categories, nextCategoryId, last>>

\* The product lookup and what follows it, to the end of the atomic block.
AcLookup ==
    \E c \in CallIds :
        /\ calls[c].op = "add_to_cart" /\ calls[c].pc = "lookup"
        /\ LET r == add_to_cart(DB, calls[c].user, calls[c].args.product_id,
                                calls[c].args.variant_id,
                                calls[c].args.quantity)
           IN  /\ Tables(r)
               /\ Return(c, r.ok, r.msg)
        /\ UNCHANGED <<priceEdits, now, reviews, summaries, categories,
                       nextCategoryId>>

ConcurrentNext ==
    \/ StartCreateOrder
    \/ CoValidate
    \/ CoRead
    \/ CoWrite
    \/ CoCommit
    \/ StartAddToCart
    \/ AcGetCart
    \/ AcLookup

\* The databases in which u1, and u2 if it has a cart, hold one line of
\* quantity 1 for variant v1, of which the last unit is in stock.
ConcurrentInit ==
    /\ products = [p \in Products |->
                     [price |-> 3333, stock_quantity |-> ProductInitStock,
                      status |-> "active", name |-> "Helmet",
                      sku |-> "HEL-1"]]
    /\ variants = [v \in Variants |->
                     [product |-> "p1", price_adjustment |-> 0,
                      stock |-> IF v = "v1" THEN 1 ELSE VariantInitStock,
                      is_active |-> TRUE,
                      name |-> IF v = "v1" THEN "Red" ELSE "Blue"]]
    /\ carts \in {{"u1"}, {"u1", "u2"}}
    /\ cartItems = {[id |-> s.id, cart |-> s.cart, product |-> s.product,
                     variant |-> s.variant, quantity |-> 1] :
                    s \in {x \in SeedLines : x.variant = "v1" /\ x.cart \in carts}}
    /\ nextItemId = 5
    /\ orders = <<>>
    /\ orderItems = {}
    /\ history = <<>>
    /\ priceEdits = 0
    /\ now = 1
    /\ reviews = {}
    /\ summaries = {}
    /\ categories = <<>>
    /\ nextCategoryId = 1
    /\ calls = [c \in CallIds |-> Idle]
    /\ last = [op |-> "init", user |-> NoUser, ok |-> TRUE, msg |-> "", writes |-> 0]

ConcurrentSpec == ConcurrentInit /\ [][ConcurrentNext]_vars

(***************************************************************************)
(* Properties.                                                             *)
(***************************************************************************)
\* The stock pool a cart line draws on, as the specification names it: the
\* variant's stock for a line with a variant, else the product's
\* stock_quantity.
PoolStock(l) ==
    IF l.variant # NoVariant THEN variants[l.variant].stock
    ELSE products[l.product].stock_quantity

LinesOf(u) == {l \in cartItems : l.cart = u}

Overstocked(u) == \E l \in LinesOf(u) : PoolStock(l) < l.quantity

\* C1: create_order is all-or-nothing: a call that fails, at whatever
\* statement, leaves every table as it was before the call: no new Order,
\* OrderItem or history row, no stock changed, the cart lines unchanged.
C1_AllOrNothing ==
    [][(last'.op = "create_order" /\ ~last'.ok) => UNCHANGED dbvars]_vars

\* A create_order that failed after the order header, an order item and a
\* stock update had been written.
C1_Witness ==
    /\ last.op = "create_order"
    /\ ~last.ok
    /\ last.writes >= 3

\* C2: if a line of the user's cart asks for more than its pool holds,
\* create_order fails and every table is unchanged.
C2_OverstockFails ==
    [][(last'.op = "create_order" /\ last'.user \in carts
                                  /\ Overstocked(last'.user))
          => (~last'.ok /\ UNCHANGED dbvars)]_vars

\* A create_order refused for insufficient stock on a cart that still holds
\* the line asking for more than its pool has.
C2_Witness ==
    /\ last.op = "create_order"
    /\ last.msg = "Insufficient stock"
    /\ Overstocked(last.user)
    /\ \E i \in DOMAIN orders : orders[i].user # last.user

\* C3: create_order for a user without cart, or with a cart without lines,
\* fails with the empty-cart error and executes no write.
C3_EmptyCartFails ==
    [][(last'.op = "create_order"
            /\ (last'.user \notin carts \/ LinesOf(last'.user) = {}))
          => /\ ~last'.ok
             /\ last'.msg \in {"Cart not found", "Cart is empty"}
             /\ last'.writes = 0
             /\ UNCHANGED dbvars]_vars

\* A create_order refused on a cart that exists and has no lines.
C3_Witness ==
    /\ last.op = "create_order"
    /\ last.msg = "Cart is empty"
    /\ last.user \in carts
    /\ LinesOf(last.user) = {}

\* C4: when every line is within its pool and the database executes every
\* statement, create_order succeeds, takes each line's quantity from the
\* line's pool alone, and leaves the cart in place without lines.
C4_SuccessDecrementsPool ==
    [][(/\ last'.op = "create_order"
        /\ last'.user \in carts
        /\ LinesOf(last'.user) # {}
        /\ ~Overstocked(last'.user)
        /\ last'.msg # "Error creating order: DatabaseError")
          => /\ last'.ok
             /\ \A l \in LinesOf(last'.user) :
                   IF l.variant # NoVariant
                   THEN /\ variants'[l.variant].stock =
                              variants[l.variant].stock - l.quantity
                        /\ products'[l.product].stock_quantity =
                              products[l.product].stock_quantity
                   ELSE products'[l.product].stock_quantity =
                              products[l.product].stock_quantity - l.quantity
             /\ last'.user \in carts'
             /\ \A l \in cartItems' : l.cart # last'.user]_vars

\* C5: every order's stored total_amount is subtotal + shipping_cost +
\* tax_amount - discount_amount of its stored fields, and its discount is 0.
C5_TotalIsSum ==
    \A i \in DOMAIN orders :
        /\ orders[i].total_amount =
              orders[i].subtotal + orders[i].shipping_cost
                  + orders[i].tax_amount - orders[i].discount_amount
        /\ orders[i].discount_amount = 0

\* An order whose tax had more than two places before it was stored.
C5_Witness ==
    \E i \in DOMAIN orders :
        /\ orders[i].tax_amount * 100 # orders[i].subtotal * TaxRateHundredths
        /\ orders[i].total_amount > orders[i].subtotal

\* The unit price of a line as the specification gives it: product.price +
\* variant.price_adjustment with a variant, product.price without.
ClaimUnitPrice(l) ==
    IF l.variant # NoVariant
    THEN products[l.product].price + variants[l.variant].price_adjustment
    ELSE products[l.product].price

RECURSIVE LineSum(_)
LineSum(S) ==
    IF S = {} THEN 0
    ELSE LET l == CHOOSE x \in S : TRUE
         IN  ClaimUnitPrice(l) * l.quantity + LineSum(S \ {l})

\* C6: a new order's subtotal is the sum over the cart lines, at the time
\* of the call, of unit price times quantity; no later step, a price or
\* price_adjustment edit included, changes the subtotal or total_amount of
\* an order that exists.
C6_SubtotalSnapshot ==
    [][/\ (last'.op = "create_order" /\ last'.ok)
            => /\ Len(orders') = Len(orders) + 1
               /\ orders'[Len(orders')].subtotal = LineSum(LinesOf(last'.user))
       /\ \A i \in DOMAIN orders :
            /\ i \in DOMAIN orders'
            /\ orders'[i].subtotal = orders[i].subtotal
            /\ orders'[i].total_amount = orders[i].total_amount]_vars

\* A price edit after which an ordered line would cost something else than
\* the order recorded.
C6_Witness ==
    /\ last.op \in {"admin_set_price", "admin_set_price_adjustment"}
    /\ \E oi \in orderItems : oi.unit_price # ClaimUnitPrice(oi)
    /\ \E i \in DOMAIN orders : orders[i].subtotal > 0

\* Whether add_to_cart's product and variant arguments name an active
\* product and, if a variant is given, an active variant of that product.
ValidTarget(pid, vid) ==
    /\ pid \in DOMAIN products
    /\ products[pid].status = "active"
    /\ \/ vid = NoVariant
       \/ /\ vid \in DOMAIN variants
          /\ variants[vid].product = pid
          /\ variants[vid].is_active

\* The lines of u's cart for a product and variant.
SameLine(u, pid, vid) ==
    {l \in cartItems : l.cart = u /\ l.product = pid /\ l.variant = vid}

\* C7: for a valid product and variant and a positive quantity, add_to_cart
\* fails and leaves the cart unchanged when the pool holds less than the
\* line would then ask for, and otherwise succeeds, inserting a line of
\* that quantity or raising the existing line's quantity by it.
C7_AddToCartStock ==
    [][(/\ last'.op = "add_to_cart"
        /\ ValidTarget(last'.args.product_id, last'.args.variant_id)
        /\ last'.args.quantity >= 1)
          => LET u == last'.user
                 pid == last'.args.product_id
                 vid == last'.args.variant_id
                 q == last'.args.quantity
                 avail == IF vid # NoVariant THEN variants[vid].stock
                          ELSE products[pid].stock_quantity
                 ex == SameLine(u, pid, vid)
                 have == IF ex = {} THEN 0
                         ELSE (CHOOSE l \in ex : TRUE).quantity
             IN  IF avail < have + q
                 THEN ~last'.ok /\ cartItems' = cartItems
                 ELSE /\ last'.ok
                      /\ IF ex = {}
                         THEN \E l \in cartItems' :
                                 /\ l \notin cartItems
                                 /\ l.cart = u /\ l.product = pid
                                 /\ l.variant = vid /\ l.quantity = q
                                 /\ cartItems' = cartItems \cup {l}
                         ELSE cartItems' =
                                 (cartItems \ ex) \cup
                                 {[l EXCEPT !.quantity = have + q] : l \in ex}
       ]_vars

\* C8: add_to_cart succeeds only for an active product and, with a variant
\* id, an active variant of it; otherwise it reports not-found/inactive and
\* the cart lines are unchanged; for an active product with enough stock
\* and no line yet it succeeds.
C8_AddToCartTarget ==
    [][last'.op = "add_to_cart"
          => LET pid == last'.args.product_id
                 vid == last'.args.variant_id
                 q == last'.args.quantity
             IN  /\ last'.ok => ValidTarget(pid, vid)
                 /\ ~ValidTarget(pid, vid)
                       => /\ ~last'.ok
                          /\ last'.msg \in
                                {"Product not found or inactive",
                                 "Product variant not found or inactive"}
                          /\ cartItems' = cartItems
                 /\ (/\ ValidTarget(pid, vid)
                     /\ vid = NoVariant
                     /\ q >= 1
                     /\ products[pid].stock_quantity >= q
                     /\ SameLine(last'.user, pid, vid) = {})
                       => last'.ok
       ]_vars

\* C9: update_cart_item on a line of the caller's cart deletes the line for
\* a quantity <= 0, fails and keeps the line for a quantity above the
\* line's pool, and otherwise overwrites the line's quantity.
C9_UpdateCartItem ==
    [][last'.op = "update_cart_item"
          => \A l \in LinesOf(last'.user) :
                l.id = last'.args.cart_item_id =>
                   LET q == last'.args.quantity
                   IN  IF q <= 0
                       THEN last'.ok /\ cartItems' = cartItems \ {l}
                       ELSE IF q > PoolStock(l)
                       THEN ~last'.ok /\ cartItems' = cartItems
                       ELSE /\ last'.ok
                            /\ cartItems' = (cartItems \ {l}) \cup
                                            {[l EXCEPT !.quantity = q]}
       ]_vars

\* C10: remove_from_cart and update_cart_item by user A with the id of a
\* line that is not in A's cart fail with not-found and change no cart
\* line, and no cart operation of A changes or deletes a line of another
\* user's cart.
C10_CartIsolation ==
    [][/\ (/\ last'.op \in {"remove_from_cart", "update_cart_item"}
           /\ ~\E l \in LinesOf(last'.user) : l.id = last'.args.cart_item_id)
             => /\ ~last'.ok
                /\ last'.msg = "Cart item not found"
                /\ cartItems' = cartItems
       /\ \A l \in cartItems : l.cart # last'.user => l \in cartItems'
       ]_vars

\* A removal or update by one user, refused as not found, that named a
\* line of another user's cart.
C10_Witness ==
    /\ last.op \in {"remove_from_cart", "update_cart_item"}
    /\ last.msg = "Cart item not found"
    /\ \E l \in cartItems : l.id = last.args.cart_item_id /\ l.cart # last.user

\* Whether two order_items rows are the same row: one order has at most one
\* item per product and variant.
SameItem(a, b) ==
    a.order = b.order /\ a.product = b.product /\ a.variant = b.variant

\* C11: the product_name, product_sku, variant_name and unit_price of an
\* order item are the product's and variant's values when the order is
\* created, and no later step, an edit of the product or variant or a save
\* of the order item included, changes them.
C11_OrderItemSnapshot ==
    [][/\ (last'.op = "create_order" /\ last'.ok)
            => \A oi \in orderItems' \ orderItems :
                  /\ oi.product_name = products[oi.product].name
                  /\ oi.product_sku = products[oi.product].sku
                  /\ oi.variant # NoVariant
                        => oi.variant_name = variants[oi.variant].name
                  /\ oi.unit_price = ClaimUnitPrice(oi)
       /\ \A a \in orderItems : \A b \in orderItems' :
             SameItem(a, b)
                => /\ b.product_name = a.product_name
                   /\ b.product_sku = a.product_sku
                   /\ b.variant_name = a.variant_name
                   /\ b.unit_price = a.unit_price]_vars

\* C12: an order, each of its order items and each of its status-history
\* rows exist in every later state.
C12_OrderPermanent ==
    [][/\ \A i \in DOMAIN orders :
             i \in DOMAIN orders' /\ orders'[i].id = orders[i].id
       /\ \A a \in orderItems : \E b \in orderItems' : SameItem(a, b)
       /\ \A j \in DOMAIN history :
             /\ j \in DOMAIN history'
             /\ history'[j].order = history[j].order
             /\ history'[j].status = history[j].status]_vars

\* C13: update_order_status sets shipped_at on an order entering 'shipped'
\* with no shipped_at yet and delivered_at on one entering 'delivered' with
\* no delivered_at yet; a timestamp that is set never changes, and nothing
\* else sets one.
C13_TimestampsSetOnce ==
    [][\A i \in DOMAIN orders :
          LET o == orders[i]
              n == orders'[i]
              entering(s) == /\ last'.op = "update_order_status"
                             /\ last'.ok
                             /\ last'.args.order_id = i
                             /\ last'.args.new_status = s
          IN  /\ i \in DOMAIN orders'
              /\ o.shipped_at # NoTime => n.shipped_at = o.shipped_at
              /\ o.delivered_at # NoTime => n.delivered_at = o.delivered_at
              /\ (entering("shipped") /\ o.shipped_at = NoTime)
                    => n.shipped_at = now /\ n.shipped_at # NoTime
              /\ (entering("delivered") /\ o.delivered_at = NoTime)
                    => n.delivered_at = now /\ n.delivered_at # NoTime
              /\ n.shipped_at # o.shipped_at => entering("shipped")
              /\ n.delivered_at # o.delivered_at => entering("delivered")
      ]_vars

\* An order that entered 'shipped', then 'processing', then 'shipped' again
\* at a later time, and still has the time of its first entry.
C13_Witness ==
    /\ last.op = "update_order_status"
    /\ last.ok
    /\ last.args.new_status = "shipped"
    /\ orders[last.args.order_id].shipped_at # NoTime
    /\ orders[last.args.order_id].shipped_at < now - 1
    /\ \E j, k \in DOMAIN history :
          /\ j < k
          /\ history[j].status = "shipped"
          /\ history[k].status = "processing"

\* C14: a call of update_order_status for an order that exists succeeds and
\* appends one history row with the new status and the acting user, whose
\* note is the note given or, when none is given, "Status changed from X to
\* Y"; a call for an id no order has fails with not-found and appends
\* nothing.
C14_HistoryAppended ==
    [][last'.op = "update_order_status"
          => LET i == last'.args.order_id
                 new == last'.args.new_status
                 notes == last'.args.notes
             IN  IF i \in DOMAIN orders
                 THEN /\ last'.ok
                      /\ history' =
                           Append(history,
                             [order |-> i, status |-> new,
                              notes |-> IF notes \in {NoNote, ""}
                                        THEN "Status changed from "
                                               \o orders[i].status
                                               \o " to " \o new
                                        ELSE notes,
                              created_by |-> last'.user])
                 ELSE /\ ~last'.ok
                      /\ last'.msg = "Order not found"
                      /\ history' = history
      ]_vars

\* An update to the status the order already had, without a note, by a
\* user who is not the order's owner.
C14_Witness ==
    /\ last.op = "update_order_status"
    /\ last.ok
    /\ last.args.notes = NoNote
    /\ last.user # orders[last.args.order_id].user
    /\ history[Len(history)].notes = "Status changed from shipped to shipped"
    /\ history[Len(history)].created_by = last.user

\* The reviews a user has written for a product.
ReviewsBy(p, u) == {r \in reviews : r.product = p /\ r.user = u}

\* The approved reviews of a product.
ApprovedOf(p) == {r \in reviews : r.product = p /\ r.is_approved}

\* The summary rows of a product.
SummariesOf(p) == {x \in summaries : x.product = p}

\* C15: a submission by a user who has already reviewed the product fails
\* with the duplicate-review error and leaves the reviews unchanged; after
\* every step there is at most one review per product and user.
C15_OneReviewPerUser ==
    [][/\ (/\ last'.op = "add_review"
           /\ ReviewsBy(last'.args.product_id, last'.user) # {})
             => /\ ~last'.ok
                /\ last'.msg = "Ya has resenado este producto"
                /\ reviews' = reviews
       /\ \A a, b \in reviews' :
             (a.product = b.product /\ a.user = b.user) => a = b]_vars

\* A second submission, itself valid, refused as a duplicate.
C15_Witness ==
    /\ last.op = "add_review"
    /\ last.msg = "Ya has resenado este producto"
    /\ last.args.rating = 50
    /\ len(strip(last.args.comment)) >= MinCommentLength
    /\ Cardinality(ReviewsBy(last.args.product_id, last.user)) = 1

\* C16: a submission for an active product the user has not reviewed fails
\* with a validation error, creating no review and changing no summary,
\* when its rating is outside 1..5 or its trimmed comment has fewer than 10
\* characters, and otherwise creates exactly one review.
C16_ReviewValidation ==
    [][(/\ last'.op = "add_review"
        /\ last'.args.product_id \in DOMAIN products
        /\ products[last'.args.product_id].status = "active"
        /\ ReviewsBy(last'.args.product_id, last'.user) = {})
          => IF \/ last'.args.rating < 10
                \/ last'.args.rating > 50
                \/ len(strip(last'.args.comment)) < 10
             THEN /\ ~last'.ok
                  /\ last'.msg \in
                        {"La calificacion debe estar entre 1 y 5",
                         "El comentario debe tener al menos 10 caracteres"}
                  /\ reviews' = reviews
                  /\ summaries' = summaries
             ELSE /\ last'.ok
                  /\ reviews \subseteq reviews'
                  /\ Cardinality(reviews' \ reviews) = 1
                  /\ \A r \in reviews' \ reviews :
                        /\ r.product = last'.args.product_id
                        /\ r.user = last'.user
      ]_vars

\* C17: whenever add_review has created the review row it reports success
\* and the row is in the table, whatever became of the summary.
C17_ReviewSurvivesSummary ==
    [][last'.op = "add_review"
          => /\ reviews \subseteq reviews'
             /\ reviews' # reviews
                   => /\ last'.ok
                      /\ \E r \in reviews' :
                            /\ r.product = last'.args.product_id
                            /\ r.user = last'.user
      ]_vars

\* A review created while the text generation failed and no summary of the
\* product was stored.
C17_Witness ==
    /\ last.op = "add_review"
    /\ last.ok
    /\ last.args.client = "error"
    /\ ReviewsBy(last.args.product_id, last.user) # {}
    /\ SummariesOf(last.args.product_id) = {}

\* The texts the rule-based fallbacks write.
RuleBasedTexts ==
    {"customers are generally satisfied with this product",
     "customers have raised some concerns about this product",
     "customers have mixed opinions about this product",
     "Customers are generally very satisfied with this product.",
     "Customers have mixed feelings about this product.",
     "Some customers have expressed concerns about this product."}

\* C18: a summary regeneration for a product with approved reviews, made
\* without a credential or with a failing text-generation call, leaves the
\* product with a summary whose text is one of the rule-based texts.
C18_FallbackSummary ==
    [][(/\ last'.op \in {"update_product_summary", "generate_review_summary"}
        /\ last'.args.client \in {"none", "error"}
        /\ last'.args.product_id \in DOMAIN products
        /\ ApprovedOf(last'.args.product_id) # {})
          => \E x \in summaries' :
                /\ x.product = last'.args.product_id
                /\ x.summary \in RuleBasedTexts
      ]_vars

\* C19: after update_product_summary for an existing product, the product
\* has no summary if it has no approved review, and otherwise one summary
\* with the number and the mean rating of its approved reviews; a product
\* never has two summaries.
C19_SummaryUpsert ==
    [][/\ (/\ last'.op = "update_product_summary"
           /\ last'.args.product_id \in DOMAIN products)
             => LET p == last'.args.product_id
                IN  IF ApprovedOf(p) = {}
                    THEN \A x \in summaries' : x.product # p
                    ELSE \E x \in summaries' :
                            /\ x.product = p
                            /\ x.total_reviews = Cardinality(ApprovedOf(p))
                            /\ x.average_rating * Cardinality(ApprovedOf(p))
                                  = 100 * SumRatings(ApprovedOf(p))
       /\ \A x, y \in summaries' : x.product = y.product => x = y]_vars

C21_TaxIsExactProduct ==
    \A i \in DOMAIN orders :
        E4(orders[i].tax_amount) = orders[i].subtotal * TaxRateHundredths

\* C21, amended: the stored tax_amount of every order is 0.08 times its
\* subtotal rounded to the nearest cent, and the exact product when that is
\* a whole number of cents.
C21_TaxIsRoundedProduct ==
    \A i \in DOMAIN orders :
        LET exact == orders[i].subtotal * TaxRateHundredths
            stored == E4(orders[i].tax_amount)
        IN  /\ 2 * (stored - exact) < 100
            /\ 2 * (exact - stored) < 100
            /\ exact % 100 = 0 => stored = exact

\* An order of subtotal 33.33, whose tax 2.6664 is stored as 2.67, next to
\* an order of subtotal 100.00, whose tax is 8.00.
C21_Witness ==
    /\ \E i \in DOMAIN orders :
          orders[i].subtotal = 3333 /\ orders[i].tax_amount = 267
    /\ \E i \in DOMAIN orders :
          orders[i].subtotal = 10000 /\ orders[i].tax_amount = 800

\* Whether the record of a call is one of a sentiment score.
IsSentiment(c) ==
    c.op \in {"calculate_sentiment_score", "fallback_sentiment_score"}

ClaimBaseSlug(name) ==
    IF name = <<"Cascos">> THEN "cascos" ELSE "cascos-1"

\* The j-th slug of a name: the slugified name, then that with -1, -2, ...
ClaimSlug(name, j) ==
    IF j = 0 THEN ClaimBaseSlug(name)
    ELSE ClaimBaseSlug(name) \o "-" \o ToString(j)

\* The categories that have a name.
NamedLike(name) == {c \in DOMAIN categories : categories[c].name = name}

RECURSIVE ReachesRoot(_, _)
ReachesRoot(c, n) ==
    \/ categories[c].parent = NoCategory
    \/ /\ n > 0
       /\ categories[c].parent \in DOMAIN categories
       /\ ReachesRoot(categories[c].parent, n - 1)

\* C28: the parent relation has no cycle: from every category the parent
\* links reach a category without parent, in fewer steps than there are
\* categories.
C28_NoParentCycle ==
    \A c \in DOMAIN categories :
        ReachesRoot(c, Cardinality(DOMAIN categories))

\* C24: every cart line has a quantity of at least 1, after any sequence
\* of add_to_cart, update_cart_item, remove_from_cart, clear_cart and
\* create_order calls, whatever quantities they are given.
C24_QuantityAtLeastOne ==
    \A l \in cartItems : l.quantity >= 1

\* An add_to_cart with a negative quantity for a valid product and variant,
\* and an update_cart_item with quantity 0, each made after a checkout and
\* with cart lines left.
C24_Witness ==
    /\ orders # <<>>
    /\ cartItems # {}
    /\ \/ /\ last.op = "add_to_cart"
          /\ last.args.quantity < 0
          /\ ValidTarget(last.args.product_id, last.args.variant_id)
       \/ /\ last.op = "update_cart_item"
          /\ last.args.quantity = 0
          /\ last.ok

\* The create_order calls that have returned
Checkouts == {c \in CallIds : calls[c].op = "create_order" /\ calls[c].pc = "done"}

\* The sum of the quantities of a set of order items
RECURSIVE SumQuantities(_)
SumQuantities(S) ==
    IF S = {} THEN 0
    ELSE LET x == CHOOSE y \in S : TRUE
         IN  x.quantity + SumQuantities(S \ {x})

\* The quantity ordered of variant v, or of the product without variant
Ordered(v) == SumQuantities({oi \in orderItems : oi.variant = v})

\* C25: two checkouts by different users, each with a line of quantity 1
\* for the variant whose stock is 1, that have both read the variant's
\* row before either commits, both succeed: two units are ordered of a
\* stock of one.
C25_BothCheckoutsSucceed ==
    (/\ Checkouts = CallIds
     /\ \A c \in CallIds : calls[c].seen = 1)
        => /\ \A c \in CallIds : calls[c].ok
           /\ calls["a"].user # calls["b"].user
           /\ Len(orders) = 2
           /\ Ordered("v1") = 2
           /\ Ordered("v1") > 1
           /\ variants["v1"].stock = 0

\* Both checkouts have returned with success, neither began after the
\* other had returned, and two units of v1 are ordered.
C25_Witness ==
    /\ Checkouts = CallIds
    /\ \A c \in CallIds : calls[c].ok /\ calls[c].before = {} /\ calls[c].seen = 1
    /\ Ordered("v1") = 2
    /\ variants["v1"].stock = 0

\* C26: a cart holds at most one line for a product and variant, a line
\* without variant being a combination of its own, after add_to_cart
\* calls made one after the other or at the same time.
C26_OneLinePerCombination ==
    \A l1, l2 \in cartItems :
        (l1.cart = l2.cart /\ l1.product = l2.product /\ l1.variant = l2.variant)
            => l1 = l2

\* Two add_to_cart calls of one user for the same product and variant, of
\* which the cart has no line, have returned, neither having begun after
\* the other had returned.
C26_Witness ==
    /\ \A c \in CallIds :
          /\ calls[c].op = "add_to_cart"
          /\ calls[c].pc = "done"
          /\ calls[c].before = {}
          /\ calls[c].user = "u1"
          /\ calls[c].args = calls["a"].args
    /\ ExistingItems(DB, "u1", calls["a"].args.product_id,
                     calls["a"].args.variant_id) = {}

\* C27: update_order_status validates no transition: for every pair (s, t)
\* of the seven statuses, a call with new status t for an existing order in
\* status s succeeds and leaves the order in status t.
C27_AnyTransition ==
    [][(/\ last'.op = "update_order_status"
        /\ last'.args.order_id \in DOMAIN orders)
          => /\ last'.ok
             /\ orders'[last'.args.order_id].status = last'.args.new_status]_vars

\* The last call was update_order_status with new status t for an order in
\* status s, and the order is in status t.
TransitionMade(s, t) ==
    /\ last.op = "update_order_status"
    /\ last.ok
    /\ last.old_status = s
    /\ last.args.new_status = t
    /\ orders[last.args.order_id].status = t

\* A delivered order has been set to pending.
C27_Witness == TransitionMade("delivered", "pending")

\* The history rows of order oid, oldest first
HistoryOf(oid) == SelectSeq(history, LAMBDA h : h.order = oid)

\* Every order has history rows; the newest carries the order's status and
\* the oldest carries pending.
HistoryMatchesOrders ==
    \A oid \in DOMAIN orders :
        LET hs == HistoryOf(oid)
        IN  /\ hs # <<>>
            /\ hs[Len(hs)].status = orders[oid].status
            /\ hs[1].status = "pending"

\* The rows there were are still there, unchanged and in their places.
HistoryKept ==
    /\ Len(history') >= Len(history)
    /\ SubSeq(history', 1, Len(history)) = history

\* C29: after any sequence of create_order, update_order_status and
\* OrderUpdateSerializer.update, the newest history row of every order
\* carries the order's status and the first carries pending, and no step
\* changes or removes a row of the history.
C29_AuditLog == []HistoryMatchesOrders /\ [][HistoryKept]_vars

\* Two orders exist and the serializer has just changed the status of one,
\* which wrote the third row of the history.
C29_Witness ==
    /\ Len(orders) = 2
    /\ Len(history) = 3
    /\ last.op = "order_update_serializer_update"
    /\ "status" \in DOMAIN last.args.data
    /\ last.args.data.status # last.old_status
    /\ orders[last.args.order_id].status = last.args.data.status

\* C30: with the calls made one at a time, after any sequence of
\* add_to_cart, update_cart_item and create_order calls no stock is below
\* 0, and what each pool of stock has lost since the initial state is the
\* sum of the quantities of the order items made for it: for a variant
\* the items with that variant, for a product the items without variant.
C30_NoOversell ==
    /\ \A v \in DOMAIN variants :
          /\ variants[v].stock >= 0
          /\ VariantInitStock - variants[v].stock = Ordered(v)
    /\ \A p \in DOMAIN products :
          /\ products[p].stock_quantity >= 0
          /\ ProductInitStock - products[p].stock_quantity =
                SumQuantities({oi \in orderItems :
                                  oi.product = p /\ oi.variant = NoVariant})

\* All units of variant v1 are ordered, and a further checkout with a line
\* of v1 has been refused for insufficient stock.
C30_Witness ==
    /\ variants["v1"].stock = 0
    /\ Ordered("v1") = VariantInitStock
    /\ last.op = "create_order"
    /\ ~last.ok
    /\ last.msg = "Insufficient stock"
    /\ \E l \in ItemsOf(DB, last.user) : l.variant = "v1" /\ l.quantity >= 1

====
